---- MODULE Spec2Model ----
(***************************************************************************)
(* Model of src/app/seller/view-profile/page.tsx (ViewProfilePage).        *)
(*                                                                         *)
(* The page holds three pieces of React state (profile, loading, error),   *)
(* runs one effect on mount (fetchProfile) and offers click handlers in    *)
(* the sidebar and in the error panel.  The collaborators (router, toast,  *)
(* logout, getSellerProfile, localStorage) are outside the file; every     *)
(* call the page makes to them is recorded, in order, in `calls`.          *)
(*                                                                         *)
(* JavaScript values are strings here.  null, undefined and the absence    *)
(* of rendering are the sentinels Null, Undefined and NotRendered.         *)
(***************************************************************************)
EXTENDS Integers, Sequences, FiniteSets, TLC

\* ---------------------------------------------------------------- bounds
MaxClicks  == 2   \* sidebar clicks (Sign Out, My Deals, Off Market) per run
MaxReloads == 1   \* "Try Again" reloads per run

\* ------------------------------------------------------- JavaScript values
Null        == "<null>"
Undefined   == "<undefined>"
NotRendered == "<not rendered>"

\* JS truthiness of a string-or-null-or-undefined value
Truthy(v) == v \notin {Null, Undefined, ""}

\* a || b
Or(a, b) == IF Truthy(a) THEN a ELSE b

\* ------------------------------------------------------------- data model
\* interface SellerProfile, restricted to the fields the page renders
Profiles ==
  [isNull : {FALSE}, id : {"s1"},
   fullName : {"Jane Doe", ""},
   email : {"jane@x.com", Undefined},
   title : {"CFO", Undefined},
   companyName : {"Acme", Undefined}]

\* useState<SellerProfile | null>(null)
NullProfile ==
  [isNull |-> TRUE, id |-> Undefined, fullName |-> Undefined,
   email |-> Undefined, title |-> Undefined, companyName |-> Undefined]

\* profile?.f
Field(p, f) == IF p.isNull THEN Undefined ELSE p[f]

\* the three messages the catch block compares err.message with
AuthMessages ==
  {"Authentication expired", "No authentication token found",
   "Failed to fetch profile: 403"}

\* err.message of a rejection: recognised, unrecognised, empty, missing
Messages ==
  AuthMessages \cup
  {"Network timeout", "Failed to fetch profile: 500", "authentication expired",
   "", Undefined}

\* localStorage.getItem("token"): absent, empty, present
Tokens == {Null, "", "tok"}

Fallback == "Failed to load profile"

\* paths handed to router.push
LoginNoToken    == "/seller/login?error=no_token"
LoginAuthFailed == "/seller/login?error=auth_failed"
LoginPlain      == "/seller/login"
SidebarPaths    == {"/seller/dashboard", "/seller/history"}

\* calls to collaborators
CallFetch      == <<"getSellerProfile">>
CallLogout     == <<"logout">>
CallPush(path) == <<"push", path>>
CallToast(d)   == <<"toast", "Error", d, "destructive">>

VARIABLES
  token,     \* localStorage "token"
  profile,   \* useState profile
  loading,   \* useState loading
  error,     \* useState error
  pc,        \* position of the effect: "rendered", "awaiting", "done"
  inflight,  \* number of getSellerProfile calls not yet settled
  outcome,   \* how the effect of this mount ended
  calls,     \* calls made to collaborators during this mount, in order
  mounted,   \* the page is still on screen
  clicks,    \* sidebar clicks so far
  reloads    \* "Try Again" reloads so far

vars == <<token, profile, loading, error, pc, inflight, outcome, calls,
          mounted, clicks, reloads>>

NoOutcome == [kind |-> "none", msg |-> Undefined, data |-> NullProfile]

\* ---------------------------------------------------------------- render
\* loading ? skeleton : error ? error panel : profile panel
MainView(l, e) ==
  IF l THEN "skeleton" ELSE IF Truthy(e) THEN "error" ELSE "profile"

\* {profile?.f || "fallback"}
Shown_NoFallback(p, f, fb) == Field(p, f)
Shown(p, f, fb) == Or(Field(p, f), fb)

\* what the JSX puts on screen for a given state
Render(l, e, p) ==
  LET main == MainView(l, e) IN
  [ main        |-> main,
    header      |-> IF l THEN "skeleton" ELSE Shown(p, "fullName", "User"),
    errorText   |-> IF main = "error" THEN e ELSE NotRendered,
    tryAgain    |-> main = "error",
    fullName    |-> IF main = "profile" THEN Shown(p, "fullName", "User")
                    ELSE NotRendered,
    title       |-> IF main = "profile" THEN Shown(p, "title", "CEO")
                    ELSE NotRendered,
    email       |-> IF main = "profile"
                    THEN Shown(p, "email", "Email not provided")
                    ELSE NotRendered,
    companyName |-> IF main = "profile"
                    THEN Shown(p, "companyName", "Not provided")
                    ELSE NotRendered ]

View == Render(loading, error, profile)

\* ------------------------------------------------------------------ init
Init ==
  /\ token \in Tokens
  /\ profile = NullProfile
  /\ loading = TRUE
  /\ error = Null
  /\ pc = "rendered"
  /\ inflight = 0
  /\ outcome = NoOutcome
  /\ calls = <<>>
  /\ mounted = TRUE
  /\ clicks = 0
  /\ reloads = 0

\* --------------------------------------------------------------- actions
\* if (!token)
MissingToken_NullOnly(t) == t = Null
MissingToken(t) == ~Truthy(t)

\* the effect up to its first suspension: either the no-token branch, whose
\* return still runs the finally block, or the call of getSellerProfile.
\* Effects run in the browser only, so the typeof window test never returns.
\* (MountEffect_NoFinally: the early return skipping setLoading(false).)
MountEffect_NoFinally ==
  /\ pc = "rendered"
  /\ IF MissingToken(token)
     THEN /\ calls' = Append(calls, CallPush(LoginNoToken))
          /\ loading' = TRUE
          /\ pc' = "done"
          /\ outcome' = [NoOutcome EXCEPT !.kind = "no_token"]
          /\ UNCHANGED inflight
     ELSE /\ calls' = Append(calls, CallFetch)
          /\ loading' = TRUE
          /\ pc' = "awaiting"
          /\ inflight' = inflight + 1
          /\ UNCHANGED outcome
  /\ UNCHANGED <<token, profile, error, mounted, clicks, reloads>>

MountEffect ==
  /\ pc = "rendered"
  /\ IF MissingToken(token)
     THEN /\ calls' = Append(calls, CallPush(LoginNoToken))
          /\ loading' = FALSE
          /\ pc' = "done"
          /\ outcome' = [NoOutcome EXCEPT !.kind = "no_token"]
          /\ UNCHANGED inflight
     ELSE /\ calls' = Append(calls, CallFetch)
          /\ loading' = TRUE
          /\ pc' = "awaiting"
          /\ inflight' = inflight + 1
          /\ UNCHANGED outcome
  /\ UNCHANGED <<token, profile, error, mounted, clicks, reloads>>

\* await getSellerProfile() resolves with data; the setters and the finally
\* block run in one continuation.  The setters are applied as called: the
\* continuation tests neither mounted nor a cancellation flag.
\* (FetchResolve_KeepLoading: the success path without setLoading(false).)
FetchResolve_KeepLoading(data) ==
  /\ pc = "awaiting"
  /\ profile' = data
  /\ error' = Null
  /\ pc' = "done"
  /\ inflight' = inflight - 1
  /\ outcome' = [kind |-> "resolved", msg |-> Undefined, data |-> data]
  /\ UNCHANGED <<loading, token, calls, mounted, clicks, reloads>>

FetchResolve(data) ==
  /\ pc = "awaiting"
  /\ profile' = data
  /\ error' = Null
  /\ loading' = FALSE
  /\ pc' = "done"
  /\ inflight' = inflight - 1
  /\ outcome' = [kind |-> "resolved", msg |-> Undefined, data |-> data]
  /\ UNCHANGED <<token, calls, mounted, clicks, reloads>>

\* err.message || "Failed to load profile"
ErrorText_NoFallback(msg) == msg
ErrorText(msg) == Or(msg, Fallback)

\* the three === comparisons of the catch block
IsAuthError_Prefix(msg) == msg \in AuthMessages \cup {"Failed to fetch profile: 500"}
IsAuthError(msg) == msg \in AuthMessages

\* what the catch block calls: the toast, then the redirect if it applies
CatchCalls_RawDescription(msg) ==
  <<CallToast(msg)>> \o
  (IF IsAuthError(msg) THEN <<CallPush(LoginAuthFailed)>> ELSE <<>>)

CatchCalls(msg) ==
  <<CallToast(ErrorText(msg))>> \o
  (IF IsAuthError(msg) THEN <<CallPush(LoginAuthFailed)>> ELSE <<>>)

\* a push has been requested during this mount
Navigating(cs) == \E i \in 1..Len(cs) : cs[i][1] = "push"

\* await getSellerProfile() rejects with an error whose message is msg
\* (FetchReject_DiscardLate: a late failure dropped once a push was made.)
FetchReject_DiscardLate(msg) ==
  /\ pc = "awaiting"
  /\ pc' = "done"
  /\ inflight' = inflight - 1
  /\ outcome' = [kind |-> "rejected", msg |-> msg, data |-> NullProfile]
  /\ IF Navigating(calls)
     THEN UNCHANGED <<error, calls, loading>>
     ELSE /\ error' = ErrorText(msg)
          /\ calls' = calls \o CatchCalls(msg)
          /\ loading' = FALSE
  /\ UNCHANGED <<token, profile, mounted, clicks, reloads>>

FetchReject(msg) ==
  /\ pc = "awaiting"
  /\ error' = ErrorText(msg)
  /\ calls' = calls \o CatchCalls(msg)
  /\ loading' = FALSE
  /\ pc' = "done"
  /\ inflight' = inflight - 1
  /\ outcome' = [kind |-> "rejected", msg |-> msg, data |-> NullProfile]
  /\ UNCHANGED <<token, profile, mounted, clicks, reloads>>

\* Sign Out: logout(), then router.push("/seller/login")
HandleLogout_PushFirst ==
  /\ mounted
  /\ clicks < MaxClicks
  /\ calls' = calls \o <<CallPush(LoginPlain), CallLogout>>
  /\ clicks' = clicks + 1
  /\ UNCHANGED <<token, profile, loading, error, pc, inflight, outcome,
                 mounted, reloads>>

HandleLogout ==
  /\ mounted
  /\ clicks < MaxClicks
  /\ calls' = calls \o <<CallLogout, CallPush(LoginPlain)>>
  /\ clicks' = clicks + 1
  /\ UNCHANGED <<token, profile, loading, error, pc, inflight, outcome,
                 mounted, reloads>>

\* My Deals / Off Market: router.push(path)
NavClick(path) ==
  /\ mounted
  /\ clicks < MaxClicks
  /\ calls' = Append(calls, CallPush(path))
  /\ clicks' = clicks + 1
  /\ UNCHANGED <<token, profile, loading, error, pc, inflight, outcome,
                 mounted, reloads>>

\* Try Again: window.location.reload(); the document is loaded afresh
TryAgain_Refetch ==
  /\ mounted
  /\ View.tryAgain
  /\ reloads < MaxReloads
  /\ reloads' = reloads + 1
  /\ calls' = Append(calls, CallFetch)
  /\ loading' = TRUE
  /\ pc' = "awaiting"
  /\ inflight' = inflight + 1
  /\ UNCHANGED <<token, profile, error, outcome, mounted, clicks>>

TryAgain ==
  /\ mounted
  /\ View.tryAgain
  /\ reloads < MaxReloads
  /\ reloads' = reloads + 1
  /\ profile' = NullProfile
  /\ loading' = TRUE
  /\ error' = Null
  /\ pc' = "rendered"
  /\ inflight' = 0
  /\ outcome' = NoOutcome
  /\ calls' = <<>>
  /\ UNCHANGED <<token, mounted, clicks>>

\* a requested navigation completes and the page leaves the screen; the
\* effect registers no cleanup, so a pending fetch continues
NavigationCompletes ==
  /\ mounted
  /\ Navigating(calls)
  /\ mounted' = FALSE
  /\ UNCHANGED <<token, profile, loading, error, pc, inflight, outcome,
                 calls, clicks, reloads>>

Next ==
  \/ MountEffect
  \/ \E data \in Profiles : FetchResolve(data)
  \/ \E msg \in Messages : FetchReject(msg)
  \/ HandleLogout
  \/ \E path \in SidebarPaths : NavClick(path)
  \/ TryAgain
  \/ NavigationCompletes

Spec == Init /\ [][Next]_vars

\* the effect runs after the first render, and the awaited call settles
FairSpec ==
  /\ Spec
  /\ WF_vars(MountEffect)
  /\ WF_vars(\E data \in Profiles : FetchResolve(data))
  /\ WF_vars(\E msg \in Messages : FetchReject(msg))

\* ------------------------------------------------- vocabulary of the claims
Has(cs, c)   == \E i \in 1..Len(cs) : cs[i] = c
Count(cs, c) == Cardinality({i \in 1..Len(cs) : cs[i] = c})
Toasts(cs)   == {i \in 1..Len(cs) : cs[i][1] = "toast"}
NoMessage(m) == m \in {"", Undefined}
NoToken      == token \in {Null, ""}
Rejected     == outcome.kind = "rejected"
Resolved     == outcome.kind = "resolved"

\* C1: with no stored token (absent or empty) the effect requests
\* /seller/login?error=no_token and getSellerProfile is never called during
\* that mount.
C1_NoTokenRedirects ==
  NoToken =>
    /\ ~Has(calls, CallFetch)
    /\ inflight = 0
    /\ pc # "awaiting"
    /\ pc = "done" => /\ Count(calls, CallPush(LoginNoToken)) = 1
                      /\ outcome.kind = "no_token"

C1_Witness ==
  token = "" /\ pc = "done" /\ calls = <<CallPush(LoginNoToken)>>

\* C2 as stated: after a successful fetch the state is (data, null, false),
\* the profile panel shows the returned fullName and email themselves, no
\* error panel is shown and the effect has requested no navigation.
C2_ShowsReturnedFields ==
  Resolved =>
    /\ profile = outcome.data /\ error = Null /\ loading = FALSE
    /\ View.main = "profile"
    /\ View.fullName = outcome.data.fullName
    /\ View.email = outcome.data.email
    /\ ~Has(calls, CallPush(LoginNoToken))
    /\ ~Has(calls, CallPush(LoginAuthFailed))

\* C2 amended: as stated, except that a fullName or email that is empty or
\* absent in the returned record is shown as "User" / "Email not provided".
C2_SuccessState ==
  Resolved =>
    /\ profile = outcome.data /\ error = Null /\ loading = FALSE
    /\ View.main = "profile"
    /\ View.errorText = NotRendered
    /\ View.fullName = (IF NoMessage(outcome.data.fullName) THEN "User"
                        ELSE outcome.data.fullName)
    /\ View.email = (IF NoMessage(outcome.data.email) THEN "Email not provided"
                     ELSE outcome.data.email)
    /\ ~Has(calls, CallPush(LoginNoToken))
    /\ ~Has(calls, CallPush(LoginAuthFailed))

C2_Witness ==
  /\ Resolved /\ mounted
  /\ outcome.data.fullName = "Jane Doe" /\ outcome.data.email = "jane@x.com"
  /\ View.fullName = "Jane Doe" /\ View.email = "jane@x.com"

\* C3 as stated: after any failed fetch, an empty or missing message
\* included, error is the error's message text, exactly one destructive toast
\* with that same text has been shown, and loading is false.
C3_ErrorIsMessage ==
  Rejected =>
    /\ error = outcome.msg
    /\ Count(calls, CallToast(outcome.msg)) = 1
    /\ Cardinality(Toasts(calls)) = 1
    /\ loading = FALSE

\* C3 amended: the text is the error's message when that is non-empty and
\* "Failed to load profile" when it is empty or missing; error and the one
\* destructive toast carry that text, and loading is false.
C3_ErrorIsMessageOrFallback ==
  Rejected =>
    LET text == IF NoMessage(outcome.msg) THEN "Failed to load profile"
                ELSE outcome.msg
    IN /\ error = text
       /\ Count(calls, <<"toast", "Error", text, "destructive">>) = 1
       /\ Cardinality(Toasts(calls)) = 1
       /\ loading = FALSE

C3_Witness ==
  Rejected /\ outcome.msg = "" /\ error = "Failed to load profile"

\* C4 as stated: after a failed fetch the auth_failed redirect is requested
\* iff the message is one of the three recognised ones; for any other
\* message the error panel shows that message and no redirect is requested.
C4_PanelShowsMessage ==
  Rejected =>
    LET auth == outcome.msg \in {"Authentication expired",
                                 "No authentication token found",
                                 "Failed to fetch profile: 403"}
    IN /\ Has(calls, CallPush(LoginAuthFailed)) <=> auth
       /\ ~auth => /\ View.main = "error"
                   /\ View.errorText = outcome.msg

\* C4 amended: as stated, except that for an empty or missing message the
\* error panel shows "Failed to load profile".
C4_RedirectIffAuthMessage ==
  Rejected =>
    LET auth == outcome.msg \in {"Authentication expired",
                                 "No authentication token found",
                                 "Failed to fetch profile: 403"}
    IN /\ Count(calls, CallPush(LoginAuthFailed)) = (IF auth THEN 1 ELSE 0)
       /\ ~auth => /\ View.main = "error"
                   /\ View.errorText =
                        (IF NoMessage(outcome.msg) THEN "Failed to load profile"
                         ELSE outcome.msg)

C4_Witness ==
  /\ Rejected /\ outcome.msg = "Network timeout"
  /\ View.errorText = "Network timeout"
  /\ ~Has(calls, CallPush(LoginAuthFailed))

\* C5: whatever the page state, Sign Out is available, calls logout() first
\* and router.push("/seller/login") second, and leaves loading, error and
\* profile as they were.
C5_LogoutThenLogin ==
  /\ [](mounted /\ clicks < MaxClicks => ENABLED HandleLogout)
  /\ [][Count(calls', CallLogout) > Count(calls, CallLogout) =>
          /\ calls' = calls \o <<CallLogout, CallPush(LoginPlain)>>
          /\ UNCHANGED <<loading, error, profile>>]_vars

C5_Witness ==
  /\ pc = "awaiting" /\ loading
  /\ Len(calls) >= 2
  /\ calls[Len(calls)] = CallPush(LoginPlain)
  /\ calls[Len(calls) - 1] = CallLogout

\* C6: the main view is a function of (loading, error): the skeleton iff
\* loading, with no profile field and no error text on screen; the error
\* panel iff not loading and error is non-null; the profile panel iff not
\* loading and error is null.
C6_OneMainView ==
  /\ View.main \in {"skeleton", "error", "profile"}
  /\ View.main = "skeleton" <=> loading
  /\ View.main = "error" <=> (~loading /\ error # Null)
  /\ View.main = "profile" <=> (~loading /\ error = Null)
  /\ loading => /\ View.header = "skeleton"
                /\ View.fullName = NotRendered /\ View.email = NotRendered
                /\ View.title = NotRendered /\ View.companyName = NotRendered
                /\ View.errorText = NotRendered
  /\ View.errorText # NotRendered => View.fullName = NotRendered
  /\ View.fullName # NotRendered => View.errorText = NotRendered

C6_Witness ==
  View.main = "error" /\ outcome.msg = Undefined /\ mounted

\* C7: per mount at most one fetch is outstanding and getSellerProfile is
\* called at most once, by the effect; a Try Again restarts the page from
\* loading = true, error = null, profile = null with nothing in flight.
C7_OneFetchPerMount ==
  /\ [](inflight <= 1 /\ Count(calls, CallFetch) <= 1)
  /\ [][Count(calls', CallFetch) > Count(calls, CallFetch) =>
          pc = "rendered" /\ inflight = 0]_vars
  /\ [][reloads' # reloads =>
          /\ View.tryAgain
          /\ loading' = TRUE /\ error' = Null /\ profile' = NullProfile
          /\ pc' = "rendered" /\ inflight' = 0 /\ calls' = <<>>]_vars

C7_Witness ==
  reloads = 1 /\ pc = "awaiting" /\ inflight = 1

\* C8: a fetch that settles after Sign Out was invoked is not discarded: it
\* writes profile/error/loading, a failure shows the toast, and a recognised
\* authentication message requests /seller/login?error=auth_failed after the
\* logout's own push of /seller/login.
C8_LateResponseApplied ==
  [][(pc = "awaiting" /\ pc' = "done" /\ Has(calls, CallLogout)) =>
       /\ loading' = FALSE
       /\ outcome'.kind = "resolved" =>
            profile' = outcome'.data /\ error' = Null
       /\ outcome'.kind = "rejected" =>
            LET m    == outcome'.msg
                text == IF NoMessage(m) THEN "Failed to load profile" ELSE m
                n    == Len(calls)
            IN /\ error' = text
               /\ Len(calls') > n
               /\ SubSeq(calls', 1, n) = calls
               /\ calls'[n + 1] = <<"toast", "Error", text, "destructive">>
               /\ m \in AuthMessages =>
                    /\ Len(calls') = n + 2
                    /\ calls'[n + 2] = CallPush(LoginAuthFailed)
                    /\ Has(calls, CallPush(LoginPlain))]_vars

C8_Witness ==
  /\ ~mounted /\ pc = "done"
  /\ error = "Authentication expired" /\ ~loading
  /\ calls = <<CallFetch, CallLogout, CallPush(LoginPlain),
               CallToast("Authentication expired"),
               CallPush(LoginAuthFailed)>>

\* C9: once the page is rendered its effect eventually sets loading to
\* false, given that the awaited call settles, and within a mount loading
\* never goes back to true.
C9_LoadingEnds ==
  /\ (pc = "rendered") ~> (loading = FALSE)
  /\ (pc = "awaiting") ~> (loading = FALSE)
  /\ [][(loading = FALSE /\ reloads' = reloads) => loading' = FALSE]_vars

C9_Witness ==
  pc = "done" /\ loading = FALSE /\ reloads = 1 /\ Resolved

\* C10: on the no-token path error and profile stay null, no toast is shown,
\* and since loading is false the profile panel is rendered with the
\* fallbacks "User", "CEO", "Email not provided", "Not provided".
C10_NoTokenShowsFallbackPanel ==
  outcome.kind = "no_token" =>
    /\ error = Null /\ profile = NullProfile /\ loading = FALSE
    /\ Toasts(calls) = {}
    /\ View.main = "profile"
    /\ View.errorText = NotRendered
    /\ View.header = "User"
    /\ View.fullName = "User" /\ View.title = "CEO"
    /\ View.email = "Email not provided"
    /\ View.companyName = "Not provided"

C10_Witness ==
  token = Null /\ outcome.kind = "no_token" /\ View.fullName = "User"
====
